---- MODULE Spec2Model ----
(***************************************************************************)
(* A model of the XKit "separator" extension (src/Extensions/separator.js):*)
(* the sorted-disjoint interval set, the per-context cursors and their     *)
(* JSON persistence, and reconcile() as driven by run() and the post       *)
(* listener.                                                               *)
(***************************************************************************)
EXTENDS Integers, Sequences, FiniteSets, TLC

\* ------------------------------------------------------------------ bounds
\* Interval endpoints of the interval-set specification are drawn from 0..MaxEndpoint.
MaxEndpoint == 6
\* At most this many intervals in an enumerated interval set.
MaxIntervals == 2
\* The posts of the feed are 1..MaxPostId.
MaxPostId == 3
\* The cursors of the cursor specification hold post ids of 1..MaxCursorId
\* and at most MaxHints adjacency hints.
MaxCursorId == 5
MaxHints == 1
\* The "before" timestamps of tagged pages are 1..MaxTimestamp.
MaxTimestamp == 1

\* ------------------------------------------------------------ JS values
\* JavaScript's null and undefined, encoded as integers outside the range of
\* every number the model uses (every number of the model is > NotANumberBelow).
Null == -9001
Undefined == -9002
NotANumberBelow == -9000
\* Number.NEGATIVE_INFINITY: below every endpoint.
NEGATIVE_INFINITY == -8000

RECONCILE_ABORT == 0
RECONCILE_DEFER == -1

VARIABLES
    iv,         \* the interval-set workbench: a set, the last operation on it and its result
    running,    \* the extension's `running` flag
    ctx,        \* the context initContext() returned to the current activation
    cursors,    \* the activation's in-memory cursors object (captured by the post listener)
    storage,    \* XKit.storage of the extension: version, last_post and the two cursor keys
    listener,   \* whether XKit.post_listener holds the "separator" callback
    separator,  \* the post the #xkit-separator-line element sits before, NoSeparator if none
    pass        \* the last handler's reconcile() call: its inputs, outcome and the state before it

vars == <<iv, running, ctx, cursors, storage, listener, separator, pass>>
mainVars == <<running, ctx, cursors, storage, listener, separator, pass>>

\* ------------------------------------------------- generic helper functions

isSafeInteger(value) == value > NotANumberBelow

isSafePositiveInteger(value) == isSafeInteger(value) /\ value > 0

\* The for-loop of areSortedDisjointSafeIntegerIntervals from element i on,
\* prevUpperEndpoint being the loop's running variable.
RECURSIVE areSortedLoop(_, _, _)
areSortedLoop(intervals, i, prevUpperEndpoint) ==
    IF i > Len(intervals) THEN TRUE
    ELSE LET lowerEndpoint == intervals[i][1]
             upperEndpoint == intervals[i][2]
         IN  IF ~(isSafeInteger(lowerEndpoint) /\ isSafeInteger(upperEndpoint)) THEN FALSE
             ELSE IF ~((prevUpperEndpoint < lowerEndpoint) /\ (lowerEndpoint < upperEndpoint)) THEN FALSE
             ELSE areSortedLoop(intervals, i + 1, upperEndpoint)

areSortedDisjointSafeIntegerIntervals(intervals) ==
    areSortedLoop(intervals, 1, NEGATIVE_INFINITY)

\* Array.prototype.splice(start, deleteCount, item) on a 0-based start.
Splice(intervals, start, deleteCount, item) ==
    SubSeq(intervals, 1, start) \o <<item>> \o SubSeq(intervals, start + deleteCount + 1, Len(intervals))

\* The for-loop of addToSortedDisjointSafeIntegerIntervals from element i on;
\* st holds the loop's five running variables.
RECURSIVE addLoop(_, _, _)
addLoop(intervals, i, st) ==
    IF i > Len(intervals) THEN st
    ELSE LET oldLowerEndpoint == intervals[i][1]
             oldUpperEndpoint == intervals[i][2]
         IN  IF oldUpperEndpoint < st.newLowerEndpoint
                THEN addLoop(intervals, i + 1, [st EXCEPT !.spliceStart = @ + 1])
             ELSE IF st.newUpperEndpoint < oldLowerEndpoint
                THEN st
             ELSE LET s1 == IF (oldLowerEndpoint <= st.newLowerEndpoint) /\ (st.newLowerEndpoint <= oldUpperEndpoint)
                               THEN [st EXCEPT !.newLowerEndpoint = oldLowerEndpoint, !.preservedEndpoints = @ + 1]
                               ELSE st
                      s2 == IF (oldLowerEndpoint <= s1.newUpperEndpoint) /\ (s1.newUpperEndpoint <= oldUpperEndpoint)
                               THEN [s1 EXCEPT !.newUpperEndpoint = oldUpperEndpoint, !.preservedEndpoints = @ + 1]
                               ELSE s1
                  IN  addLoop(intervals, i + 1, [s2 EXCEPT !.spliceDeleteCount = @ + 1])

\* A plausible slip: the merged interval is spliced in without deleting the
\* intervals it absorbed.
spliceNoDelete(intervals, st) ==
    IF ~((st.spliceDeleteCount = 1) /\ (st.preservedEndpoints = 2))
       THEN [updated |-> TRUE,
             intervals |-> Splice(intervals, st.spliceStart, 0, <<st.newLowerEndpoint, st.newUpperEndpoint>>)]
       ELSE [updated |-> FALSE, intervals |-> intervals]

\* A plausible slip: "unchanged" is not detected, the covering interval is
\* always re-spliced and the call always reports a change.
spliceAlways(intervals, st) ==
    [updated |-> TRUE,
     intervals |-> Splice(intervals, st.spliceStart, st.spliceDeleteCount,
                          <<st.newLowerEndpoint, st.newUpperEndpoint>>)]

\* A plausible slip: an insert that overlaps exactly one interval is taken for
\* "unchanged" even when it extends that interval.
spliceUnlessSingleOverlap(intervals, st) ==
    IF ~(st.spliceDeleteCount = 1)
       THEN [updated |-> TRUE,
             intervals |-> Splice(intervals, st.spliceStart, st.spliceDeleteCount,
                                  <<st.newLowerEndpoint, st.newUpperEndpoint>>)]
       ELSE [updated |-> FALSE, intervals |-> intervals]

\* Lines 94-98, st holding the loop's variables after the loop: `updated`, and
\* the array as the splice leaves it.
spliceIfUpdated(intervals, st) ==
    IF ~((st.spliceDeleteCount = 1) /\ (st.preservedEndpoints = 2))
       THEN [updated |-> TRUE,
             intervals |-> Splice(intervals, st.spliceStart, st.spliceDeleteCount,
                                  <<st.newLowerEndpoint, st.newUpperEndpoint>>)]
       ELSE [updated |-> FALSE, intervals |-> intervals]

\* The call mutates `intervals` in place and returns `updated`; the model
\* returns both.
addToSortedDisjointSafeIntegerIntervals(intervals, interval) ==
    spliceIfUpdated(intervals,
                    addLoop(intervals, 1, [spliceStart |-> 0, spliceDeleteCount |-> 0, preservedEndpoints |-> 0,
                                           newLowerEndpoint |-> interval[1], newUpperEndpoint |-> interval[2]]))

\* The for-loop of indexOfIntervalContainingValue from element i on (index = i - 1).
RECURSIVE indexLoop(_, _, _)
indexLoop(intervals, value, i) ==
    IF i > Len(intervals) THEN -1
    ELSE IF intervals[i][2] < value THEN indexLoop(intervals, value, i + 1)
    ELSE IF value < intervals[i][1] THEN -1
    ELSE i - 1

\* A plausible slip: the upper endpoint is treated as exclusive.
indexExclusiveUpper(intervals, value) ==
    LET hits == {i \in 1..Len(intervals) : intervals[i][1] <= value /\ value < intervals[i][2]}
    IN  IF hits = {} THEN -1 ELSE (CHOOSE i \in hits : \A j \in hits : i <= j) - 1

indexOfIntervalContainingValue(intervals, value) ==
    indexLoop(intervals, value, 1)

\* ------------------------------------------------------------ JS Map
\* A Map is its entries <<key, value>> in insertion order, keys distinct.
MapHas(m, key) == \E i \in 1..Len(m) : m[i][1] = key

MapGet(m, key) ==
    IF MapHas(m, key) THEN m[CHOOSE i \in 1..Len(m) : m[i][1] = key][2] ELSE Undefined

\* Map.prototype.set: an existing key keeps its position, a new key is appended.
MapSet(m, key, value) ==
    IF MapHas(m, key)
       THEN [i \in 1..Len(m) |-> IF m[i][1] = key THEN <<key, value>> ELSE m[i]]
       ELSE Append(m, <<key, value>>)

\* new Map(entries): the entries are set one after the other.
RECURSIVE NewMapFrom(_, _, _)
NewMapFrom(entries, i, m) ==
    IF i > Len(entries) THEN m
    ELSE NewMapFrom(entries, i + 1, MapSet(m, entries[i][1], entries[i][2]))

NewMap(entries) == NewMapFrom(entries, 1, <<>>)

\* Array.from(map): the entries in insertion order.
ArrayFrom(m) == [i \in 1..Len(m) |-> <<m[i][1], m[i][2]>>]

\* ------------------------------------------------------ cursor validity

\* A plausible slip: a null goal post is accepted whatever the witnessed
\* intervals are.
validCursorsNullAnyWitnessed(c) ==
    IF isSafePositiveInteger(c.goalPostId)
       THEN areSortedDisjointSafeIntegerIntervals(<<<<0, c.goalPostId>>>> \o c.witnessedPostIds)
       ELSE c.goalPostId = Null

\* A plausible slip: the goal post is not required to lie below the witnessed
\* intervals.
validCursorsIgnoresGoalPost(c) ==
    IF isSafePositiveInteger(c.goalPostId)
       THEN areSortedDisjointSafeIntegerIntervals(c.witnessedPostIds)
       ELSE (c.goalPostId = Null) /\ (Len(c.witnessedPostIds) = 0)

validCursors(c) ==
    IF isSafePositiveInteger(c.goalPostId)
       THEN areSortedDisjointSafeIntegerIntervals(<<<<0, c.goalPostId>>>> \o c.witnessedPostIds)
       ELSE (c.goalPostId = Null) /\ (Len(c.witnessedPostIds) = 0)

validTaggedCursors(c) ==
    IF ~validCursors(c) THEN FALSE
    ELSE IF Len(c.witnessedPostIds) = 0 THEN Len(c.adjacencyHints) = 0
    ELSE \A i \in 1..Len(c.adjacencyHints) :
            LET timestamp == c.adjacencyHints[i][1]
                postId == c.adjacencyHints[i][2]
            IN  /\ isSafePositiveInteger(timestamp) /\ isSafePositiveInteger(postId)
                /\ indexOfIntervalContainingValue(c.witnessedPostIds, postId) # -1

\* --------------------------------------------------------------- JSON text
\* A JSON text is the sequence of its characters.  The only values the
\* extension writes are null, non-negative integers and arrays of them.
Digits == <<"0", "1", "2", "3", "4", "5", "6", "7", "8", "9">>

RECURSIVE NumberText(_)
NumberText(n) ==
    IF n < 10 THEN <<Digits[n + 1]>>
    ELSE NumberText(n \div 10) \o <<Digits[(n % 10) + 1]>>

ScalarText(v) == IF v = Null THEN <<"n", "u", "l", "l">> ELSE NumberText(v)

PairText(p) == <<"[">> \o ScalarText(p[1]) \o <<",">> \o ScalarText(p[2]) \o <<"]">>

RECURSIVE PairsBody(_, _)
PairsBody(ps, i) ==
    IF i > Len(ps) THEN <<>>
    ELSE (IF i > 1 THEN <<",">> ELSE <<>>) \o PairText(ps[i]) \o PairsBody(ps, i + 1)

PairsText(ps) == <<"[">> \o PairsBody(ps, 1) \o <<"]">>

\* JSON.stringify([goalPostId, witnessedPostIds])
StringifyDashboard(goalPostId, witnessedPostIds) ==
    <<"[">> \o ScalarText(goalPostId) \o <<",">> \o PairsText(witnessedPostIds) \o <<"]">>

\* A plausible slip: the hint entries are left out of the stored array.
StringifyTaggedNoHints(goalPostId, witnessedPostIds, rawAdjacencyHints) ==
    <<"[">> \o ScalarText(goalPostId) \o <<",">> \o PairsText(witnessedPostIds)
            \o <<",">> \o PairsText(<<>>) \o <<"]">>

\* JSON.stringify([goalPostId, witnessedPostIds, rawAdjacencyHints])
StringifyTagged(goalPostId, witnessedPostIds, rawAdjacencyHints) ==
    <<"[">> \o ScalarText(goalPostId) \o <<",">> \o PairsText(witnessedPostIds)
            \o <<",">> \o PairsText(rawAdjacencyHints) \o <<"]">>

IsDigit(ch) == \E d \in 1..10 : Digits[d] = ch
DigitValue(ch) == (CHOOSE d \in 1..10 : Digits[d] = ch) - 1

\* JSON.parse, by recursive descent.  Each reader takes the text and a position
\* and yields the value read and the position after it.
RECURSIVE ReadNumber(_, _, _)
ReadNumber(text, i, acc) ==
    IF i <= Len(text) /\ IsDigit(text[i])
       THEN ReadNumber(text, i + 1, acc * 10 + DigitValue(text[i]))
       ELSE [val |-> acc, next |-> i]

ReadScalar(text, i) ==
    IF text[i] = "n" THEN [val |-> Null, next |-> i + 4] ELSE ReadNumber(text, i, 0)

\* "[" scalar "," scalar "]": the second scalar, the first one being read
ReadPairSecond(first, second) == [val |-> <<first.val, second.val>>, next |-> second.next + 1]
ReadPairFirst(text, first) == ReadPairSecond(first, ReadScalar(text, first.next + 1))
ReadPair(text, i) == ReadPairFirst(text, ReadScalar(text, i + 1))

\* the elements of an array of pairs, text[i] being the first character after
\* "[" or ","; `pair` is the element read at i when text[i] is not "]"
RECURSIVE ReadPairsBody(_, _, _)
ReadPairsNext(text, pair, acc) ==
    ReadPairsBody(text, IF text[pair.next] = "," THEN pair.next + 1 ELSE pair.next, Append(acc, pair.val))

ReadPairsBody(text, i, acc) ==
    IF text[i] = "]" THEN [val |-> acc, next |-> i + 1]
    ELSE ReadPairsNext(text, ReadPair(text, i), acc)

ReadPairs(text, i) == ReadPairsBody(text, i + 1, <<>>)

\* JSON.parse of a stored cursors text, destructured as [first, second, third];
\* `third` is undefined, here the empty array, when the array has two elements.
ParseThird(text, first, second) ==
    [first |-> first.val, second |-> second.val,
     third |-> IF text[second.next] = "," THEN ReadPairs(text, second.next + 1).val ELSE <<>>]
ParseSecond(text, first) == ParseThird(text, first, ReadPairs(text, first.next + 1))
ParseCursorsText(text) == ParseSecond(text, ReadScalar(text, 2))

\* ------------------------------------------------------------- XKit.storage
\* A key that is absent holds Undefined (version, last_post) or NoText (the
\* cursor keys, whose values are JSON texts).
NoText == <<>>
LATEST_STORAGE_VERSION == 2

EmptyStorage == [version |-> Undefined, last_post |-> Undefined, dashboard |-> NoText, tagged |-> NoText]

\* XKit.storage.get("separator", key, default)
StorageGet(store, key, default) ==
    IF store[key] = (IF key \in {"dashboard", "tagged"} THEN NoText ELSE Undefined)
       THEN default ELSE store[key]

\* A plausible slip: the legacy goal post is removed without being written as
\* the dashboard's cursors.
upgradeStorageDropsLastPost(store) ==
    LET storageVersion == StorageGet(store, "version", 1)
    IN  IF ~(isSafePositiveInteger(storageVersion) /\ (storageVersion <= LATEST_STORAGE_VERSION))
           THEN [threw |-> TRUE, storage |-> store]
        ELSE IF storageVersion < LATEST_STORAGE_VERSION
           THEN [threw |-> FALSE,
                 storage |-> [store EXCEPT !.last_post = Undefined, !.version = LATEST_STORAGE_VERSION]]
        ELSE [threw |-> FALSE, storage |-> store]

\* upgradeStorage()
upgradeStorage(store) ==
    LET storageVersion == StorageGet(store, "version", 1)
    IN  IF ~(isSafePositiveInteger(storageVersion) /\ (storageVersion <= LATEST_STORAGE_VERSION))
           THEN [threw |-> TRUE, storage |-> store]
        ELSE IF storageVersion < LATEST_STORAGE_VERSION
           THEN LET lastPost == StorageGet(store, "last_post", Undefined)
                    s1 == IF storageVersion <= 1
                             THEN [store EXCEPT
                                     !.last_post = Undefined,
                                     !.dashboard = IF isSafePositiveInteger(lastPost)
                                                      THEN StringifyDashboard(lastPost, <<>>)
                                                      ELSE @]
                             ELSE store
                IN  [threw |-> FALSE, storage |-> [s1 EXCEPT !.version = LATEST_STORAGE_VERSION]]
        ELSE [threw |-> FALSE, storage |-> store]

\* ------------------------------------------------------------- initContext
\* The page the activation runs on, as initContext reads it:
\*   where           XKit.interface.where(): "dashboard", "tagged" or "other"
\*   endless         where.endless
\*   pageNumber      Number(rawPageNumber) of /dashboard/<page>/<signedPostId> (0: not a number)
\*   signedPostId    Number(rawSignedPostId) (0: absent or not a safe integer)
\*   tagElem         whether the tag element is in the DOM
\*   before          Number(?before=...) of a tagged page (0: absent or not a safe positive integer)
\* The closures initContext returns are the record's fields:
\*   augment         which augmentWithAdjacencyHints was built, with its captured
\*                   postId (dashboard) or pageTimestamp (tagged).
NoContext == [shouldContinue |-> FALSE, threw |-> FALSE, where |-> "other", mayDefer |-> FALSE,
              isFirstPage |-> FALSE, augment |-> "identity", postId |-> 0, pageTimestamp |-> 0]

Abs(n) == IF n < 0 THEN 0 - n ELSE n

initContext(page) ==
    IF page.where = "dashboard" THEN
        IF ~(isSafePositiveInteger(page.pageNumber) /\ (page.pageNumber > 1))
           THEN [NoContext EXCEPT !.shouldContinue = TRUE, !.where = "dashboard",
                                  !.mayDefer = page.endless, !.isFirstPage = TRUE]
        ELSE IF page.signedPostId # 0
           THEN [NoContext EXCEPT !.shouldContinue = TRUE, !.where = "dashboard",
                                  !.mayDefer = page.endless,
                                  !.augment = IF page.signedPostId > 0 THEN "olderThan" ELSE "newerThan",
                                  !.postId = Abs(page.signedPostId)]
        ELSE [NoContext EXCEPT !.shouldContinue = TRUE, !.where = "dashboard", !.mayDefer = page.endless]
    ELSE IF page.where = "tagged" THEN
        IF ~page.tagElem THEN [NoContext EXCEPT !.threw = TRUE]
        ELSE IF isSafePositiveInteger(page.before)
           THEN [NoContext EXCEPT !.shouldContinue = TRUE, !.where = "tagged", !.mayDefer = page.endless,
                                  !.augment = "tagged", !.pageTimestamp = page.before]
        ELSE [NoContext EXCEPT !.shouldContinue = TRUE, !.where = "tagged", !.mayDefer = page.endless,
                               !.isFirstPage = TRUE]
    ELSE NoContext

\* A plausible slip: the hinted post replaces the wrong end of the range.
augmentSwapsEnds(context, c, range) ==
    IF context.augment = "olderThan" THEN
        IF indexOfIntervalContainingValue(c.witnessedPostIds, context.postId) # -1
           THEN <<context.postId, range[2]>> ELSE range
    ELSE IF context.augment = "newerThan" THEN
        IF indexOfIntervalContainingValue(c.witnessedPostIds, context.postId) # -1
           THEN <<range[1], context.postId>> ELSE range
    ELSE IF context.augment = "tagged" THEN
        LET postId == MapGet(c.adjacencyHints, context.pageTimestamp)
        IN  IF (postId # Undefined) /\ (indexOfIntervalContainingValue(c.witnessedPostIds, postId) # -1)
               THEN <<postId, range[2]>> ELSE range
    ELSE range

\* context.augmentWithAdjacencyHints(cursors, [oldest, newest])
augmentWithAdjacencyHints(context, c, range) ==
    IF context.augment = "olderThan" THEN
        IF indexOfIntervalContainingValue(c.witnessedPostIds, context.postId) # -1
           THEN <<range[1], context.postId>> ELSE range
    ELSE IF context.augment = "newerThan" THEN
        IF indexOfIntervalContainingValue(c.witnessedPostIds, context.postId) # -1
           THEN <<context.postId, range[2]>> ELSE range
    ELSE IF context.augment = "tagged" THEN
        LET postId == MapGet(c.adjacencyHints, context.pageTimestamp)
        IN  IF (postId # Undefined) /\ (indexOfIntervalContainingValue(c.witnessedPostIds, postId) # -1)
               THEN <<range[1], postId>> ELSE range
    ELSE range

\* A plausible slip: stale hints are kept when the witnessed intervals are cleared.
updateAdjacencyHintsKeepsStale(context, c, postIds, nextPageTimestamp) ==
    IF context.where = "tagged" /\ Len(c.witnessedPostIds) # 0 /\ isSafePositiveInteger(nextPageTimestamp)
       THEN [c EXCEPT !.adjacencyHints = MapSet(@, nextPageTimestamp, postIds[Len(postIds)])]
       ELSE c

\* context.updateAdjacencyHints(cursors, postIds); nextPageTimestamp is what the
\* #next_page_link element holds at the time of the call (0: no link, or no valid
\* "before" in it).
updateAdjacencyHints(context, c, postIds, nextPageTimestamp) ==
    IF context.where # "tagged" THEN c
    ELSE IF Len(c.witnessedPostIds) = 0 THEN [c EXCEPT !.adjacencyHints = <<>>]
    ELSE IF isSafePositiveInteger(nextPageTimestamp)
       THEN [c EXCEPT !.adjacencyHints = MapSet(@, nextPageTimestamp, postIds[Len(postIds)])]
    ELSE c

\* The default of XKit.storage.get in loadCursors: "[null,[]]" and "[null,[],[]]".
DefaultDashboardText == <<"[", "n", "u", "l", "l", ",", "[", "]", "]">>
DefaultTaggedText == <<"[", "n", "u", "l", "l", ",", "[", "]", ",", "[", "]", "]">>

\* The dashboard's cursors object has no adjacencyHints; the model keeps the
\* field empty there.
EmptyCursors == [goalPostId |-> Null, witnessedPostIds |-> <<>>, adjacencyHints |-> <<>>]

\* The cursors object built from the parsed array, and whether validation throws.
loaded(context, parsed) ==
    IF context.where = "dashboard"
       THEN [threw |-> ~validCursors([goalPostId |-> parsed.first, witnessedPostIds |-> parsed.second]),
             cursors |-> [goalPostId |-> parsed.first, witnessedPostIds |-> parsed.second,
                          adjacencyHints |-> <<>>]]
       ELSE [threw |-> ~validTaggedCursors([goalPostId |-> parsed.first, witnessedPostIds |-> parsed.second,
                                            adjacencyHints |-> NewMap(parsed.third)]),
             cursors |-> [goalPostId |-> parsed.first, witnessedPostIds |-> parsed.second,
                          adjacencyHints |-> NewMap(parsed.third)]]

\* context.loadCursors()
loadCursors(context, store) ==
    loaded(context,
           ParseCursorsText(IF context.where = "dashboard"
                               THEN StorageGet(store, "dashboard", DefaultDashboardText)
                               ELSE StorageGet(store, "tagged", DefaultTaggedText)))

\* A plausible slip: the cursors are written first and validated afterwards.
saveCursorsValidatesLate(context, c, store) ==
    IF context.where = "dashboard"
       THEN [threw |-> ~validCursors(c), wrote |-> TRUE,
             storage |-> [store EXCEPT !.dashboard = StringifyDashboard(c.goalPostId, c.witnessedPostIds)]]
       ELSE [threw |-> ~validTaggedCursors(c), wrote |-> TRUE,
             storage |-> [store EXCEPT !.tagged = StringifyTagged(c.goalPostId, c.witnessedPostIds,
                                                                  ArrayFrom(c.adjacencyHints))]]

\* context.saveCursors(cursors)
saveCursors(context, c, store) ==
    IF context.where = "dashboard" THEN
        IF ~validCursors(c) THEN [threw |-> TRUE, wrote |-> FALSE, storage |-> store]
        ELSE [threw |-> FALSE, wrote |-> TRUE,
              storage |-> [store EXCEPT !.dashboard = StringifyDashboard(c.goalPostId, c.witnessedPostIds)]]
    ELSE
        IF ~validTaggedCursors(c) THEN [threw |-> TRUE, wrote |-> FALSE, storage |-> store]
        ELSE [threw |-> FALSE, wrote |-> TRUE,
              storage |-> [store EXCEPT !.tagged = StringifyTagged(c.goalPostId, c.witnessedPostIds,
                                                                   ArrayFrom(c.adjacencyHints))]]

\* enumerateDashboardPostIds() over the post elements of the DOM, whose data-id
\* values are `dom` in document order: throws unless every id is a safe
\* positive integer and the ids strictly decrease.
enumerateDashboardPostIds(dom) ==
    [threw |-> \E i \in 1..Len(dom) :
                  \/ ~isSafePositiveInteger(dom[i])
                  \/ (i > 1 /\ dom[i] >= dom[i - 1]),
     postIds |-> dom]

\* ---------------------------------------------------------------- reconcile
\* The outcome of a reconcile() call: the cursors object as the call leaves it
\* (it is mutated in place), the storage as the call leaves it, whether the
\* call threw, the value returned (when it did not throw), the branch taken,
\* and whether the call wrote the cursors to storage (XKit.storage.set).
Outcome(c, store, threw, result, branch) ==
    [cursors |-> c, storage |-> store, threw |-> threw, result |-> result, branch |-> branch,
     wrote |-> FALSE]

\* A plausible slip: the result is returned without the cursors being saved.
returnWithoutSaving(context, c, store, result, branch) ==
    Outcome(c, store, FALSE, result, branch)

\* the outcome of a call that ends in "saveCursors(cursors); return result;",
\* `saved` being what saveCursors did
returnSaved(c, saved, result, branch) ==
    [cursors |-> c, storage |-> saved.storage, threw |-> saved.threw,
     result |-> IF saved.threw THEN RECONCILE_ABORT ELSE result,
     branch |-> IF saved.threw THEN "throw_save" ELSE branch,
     wrote |-> saved.wrote]

\* "saveCursors(cursors); return result;": the exception of saveCursors propagates.
saveAndReturn(context, c, store, result, branch) ==
    returnSaved(c, saveCursors(context, c, store), result, branch)

\* The scan of lines 440-445: from the second oldest post towards the newest,
\* up to the first post above the goal post.
RECURSIVE bestGoalPostLoop(_, _, _, _)
bestGoalPostLoop(postIds, goalPostId, i, bestGoalPostId) ==
    IF i < 1 THEN bestGoalPostId
    ELSE IF goalPostId < postIds[i] THEN bestGoalPostId
    ELSE bestGoalPostLoop(postIds, goalPostId, i - 1, postIds[i])

\* A plausible slip: the new goal post is taken from the batch's newest post
\* instead of the merged interval's upper endpoint, and the interval is kept.
reachedKeepsInterval(c, postIds, context, nextPageTimestamp, store) ==
    LET bestGoalPostId == bestGoalPostLoop(postIds, c.goalPostId, Len(postIds) - 1, postIds[Len(postIds)])
        c2 == [c EXCEPT !.goalPostId = postIds[1]]
    IN  saveAndReturn(context, updateAdjacencyHints(context, c2, postIds, nextPageTimestamp), store,
                      bestGoalPostId, "reached")

\* A plausible slip: the batch's newest post is returned instead of the best
\* goal post.
reachedReturnsNewest(c, postIds, context, nextPageTimestamp, store) ==
    LET newGoalPostId == c.witnessedPostIds[1][2]
        c2 == [c EXCEPT !.goalPostId = newGoalPostId, !.witnessedPostIds = Tail(@)]
        c3 == updateAdjacencyHints(context, c2, postIds, nextPageTimestamp)
    IN  saveAndReturn(context, c3, store, postIds[1], "reached")

\* A plausible slip: every witnessed interval is dropped, not just the first.
reachedDropsAllIntervals(c, postIds, context, nextPageTimestamp, store) ==
    LET bestGoalPostId == bestGoalPostLoop(postIds, c.goalPostId, Len(postIds) - 1, postIds[Len(postIds)])
        newGoalPostId == c.witnessedPostIds[1][2]
        c2 == [c EXCEPT !.goalPostId = newGoalPostId, !.witnessedPostIds = <<>>]
        c3 == updateAdjacencyHints(context, c2, postIds, nextPageTimestamp)
    IN  saveAndReturn(context, c3, store, bestGoalPostId, "reached")

\* A plausible slip: the new goal post is the first interval's lower endpoint.
reachedTakesLowerEndpoint(c, postIds, context, nextPageTimestamp, store) ==
    LET bestGoalPostId == bestGoalPostLoop(postIds, c.goalPostId, Len(postIds) - 1, postIds[Len(postIds)])
        newGoalPostId == c.witnessedPostIds[1][1]
        c2 == [c EXCEPT !.goalPostId = newGoalPostId, !.witnessedPostIds = Tail(@)]
        c3 == updateAdjacencyHints(context, c2, postIds, nextPageTimestamp)
    IN  saveAndReturn(context, c3, store, bestGoalPostId, "reached")

\* Lines 439-454: the goal post lies in the first witnessed interval.
reached(c, postIds, context, nextPageTimestamp, store) ==
    LET bestGoalPostId == bestGoalPostLoop(postIds, c.goalPostId, Len(postIds) - 1, postIds[Len(postIds)])
        newGoalPostId == c.witnessedPostIds[1][2]
        c2 == [c EXCEPT !.goalPostId = newGoalPostId, !.witnessedPostIds = Tail(@)]
        c3 == updateAdjacencyHints(context, c2, postIds, nextPageTimestamp)
    IN  saveAndReturn(context, c3, store, bestGoalPostId, "reached")

\* Lines 425-437 and on: c is the cursors object after the merge, index the
\* place of the goal post among the witnessed intervals.
afterMerge(c, cursorsUpdated, index, postIds, context, nextPageTimestamp, store) ==
    IF index = -1 THEN
        IF cursorsUpdated
           THEN saveAndReturn(context, updateAdjacencyHints(context, c, postIds, nextPageTimestamp),
                              store, RECONCILE_DEFER, "defer")
           ELSE Outcome(c, store, FALSE, RECONCILE_DEFER, "defer")
    ELSE IF ~(cursorsUpdated /\ (index = 0))
       THEN Outcome(c, store, TRUE, RECONCILE_ABORT, "throw_reached")
    ELSE reached(c, postIds, context, nextPageTimestamp, store)

\* Lines 422-423, `added` being what addToSortedDisjointSafeIntegerIntervals did.
merged(c, added, postIds, context, nextPageTimestamp, store) ==
    afterMerge([c EXCEPT !.witnessedPostIds = added.intervals], added.updated,
               indexOfIntervalContainingValue(added.intervals, c.goalPostId),
               postIds, context, nextPageTimestamp, store)

\* Lines 415-423: merge the witnessed range [oldest, newest] = range.
mergeWitnessed(c, range, postIds, context, nextPageTimestamp, store) ==
    IF range[2] <= range[1]
       THEN Outcome(c, store, TRUE, RECONCILE_ABORT, "throw_range")
       ELSE merged(c, addToSortedDisjointSafeIntegerIntervals(c.witnessedPostIds, <<range[1], range[2]>>),
                   postIds, context, nextPageTimestamp, store)

\* A plausible slip: the history-browsing case resets the goal post as the
\* first-page case does.
olderThanGoalPostAlwaysResets(c, postIds, context, nextPageTimestamp, store) ==
    saveAndReturn(context,
                  updateAdjacencyHints(context, [c EXCEPT !.goalPostId = postIds[1], !.witnessedPostIds = <<>>],
                                       postIds, nextPageTimestamp),
                  store,
                  IF context.isFirstPage THEN postIds[1] ELSE RECONCILE_ABORT,
                  IF context.isFirstPage THEN "reset" ELSE "abort_history")

\* A plausible slip: the reset keeps the witnessed intervals.
olderThanGoalPostKeepsWitnessed(c, postIds, context, nextPageTimestamp, store) ==
    IF context.isFirstPage
       THEN saveAndReturn(context,
                          updateAdjacencyHints(context, [c EXCEPT !.goalPostId = postIds[1]],
                                               postIds, nextPageTimestamp),
                          store, postIds[1], "reset")
       ELSE Outcome(c, store, FALSE, RECONCILE_ABORT, "abort_history")

\* Lines 397-409: an initial pass whose newest post is older than the goal post.
olderThanGoalPost(c, postIds, context, nextPageTimestamp, store) ==
    IF context.isFirstPage
       THEN LET newestWitnessedPostId == postIds[1]
                c1 == [c EXCEPT !.goalPostId = newestWitnessedPostId, !.witnessedPostIds = <<>>]
                c2 == updateAdjacencyHints(context, c1, postIds, nextPageTimestamp)
            IN  saveAndReturn(context, c2, store, newestWitnessedPostId, "reset")
       ELSE Outcome(c, store, FALSE, RECONCILE_ABORT, "abort_history")

\* reconcile(cursors, postIds, initial, isFirstPage, augmentWithAdjacencyHints,
\*           updateAdjacencyHints, saveCursors); the last four arguments are
\* those of `context`.
reconcile(c, postIds, initial, context, nextPageTimestamp, store) ==
    IF Len(postIds) = 0 THEN Outcome(c, store, FALSE, RECONCILE_ABORT, "abort_empty")
    ELSE IF initial /\ (c.goalPostId = Null) THEN
        LET newestWitnessedPostId == postIds[1]
        IN  saveAndReturn(context, [c EXCEPT !.goalPostId = newestWitnessedPostId], store,
                          newestWitnessedPostId, "first_visit")
    ELSE IF ~isSafePositiveInteger(c.goalPostId) THEN Outcome(c, store, TRUE, RECONCILE_ABORT, "throw_goal")
    ELSE
        LET oldestWitnessedPostId == postIds[Len(postIds)]
            newestWitnessedPostId == postIds[1]
        IN  IF initial /\ (newestWitnessedPostId < c.goalPostId)
               THEN olderThanGoalPost(c, postIds, context, nextPageTimestamp, store)
            ELSE mergeWitnessed(c,
                                IF initial
                                   THEN augmentWithAdjacencyHints(context, c,
                                            <<oldestWitnessedPostId, newestWitnessedPostId>>)
                                   ELSE <<oldestWitnessedPostId, newestWitnessedPostId>>,
                                postIds, context, nextPageTimestamp, store)

\* insertSeparatorBeforePost(postId) on a DOM whose posts are `dom`: throws when
\* the line already exists or the post's element is not found.
NoSeparator == 0

insertSeparatorBeforePost(postId, sep, dom) ==
    IF sep # NoSeparator THEN [threw |-> TRUE, separator |-> sep]
    ELSE IF ~(\E i \in 1..Len(dom) : dom[i] = postId) THEN [threw |-> TRUE, separator |-> sep]
    ELSE [threw |-> FALSE, separator |-> postId]

\* ------------------------------------------------------------------ inputs
\* Post ids of the feed and "before" timestamps of tagged pages.
PostIdUniverse == 1..MaxPostId
Timestamps == 1..MaxTimestamp

Max(S) == CHOOSE x \in S : \A y \in S : y <= x

\* the elements of S, newest (largest) first
RECURSIVE Descending(_)
Descending(S) == IF S = {} THEN <<>> ELSE <<Max(S)>> \o Descending(S \ {Max(S)})

\* What the DOM can hold: any set of posts in feed order (newest first), and,
\* for the order check of enumerateDashboardPostIds, two posts out of order.
Doms(U) ==
    {Descending(S) : S \in SUBSET U} \cup {p \in U \X U : p[1] <= p[2]}

\* The pages an activation can run on.
Pages(U) ==
    {[where |-> "dashboard", endless |-> e, pageNumber |-> 1, signedPostId |-> 0, tagElem |-> TRUE, before |-> 0]
        : e \in BOOLEAN}
    \cup {[where |-> "dashboard", endless |-> e, pageNumber |-> 2, signedPostId |-> s, tagElem |-> TRUE, before |-> 0]
        : e \in BOOLEAN, s \in U \cup {0 - u : u \in U} \cup {0}}
    \cup {[where |-> "tagged", endless |-> e, pageNumber |-> 0, signedPostId |-> 0, tagElem |-> TRUE, before |-> b]
        : e \in BOOLEAN, b \in Timestamps \cup {0}}
    \cup {[where |-> "tagged", endless |-> FALSE, pageNumber |-> 0, signedPostId |-> 0, tagElem |-> FALSE, before |-> 0],
          [where |-> "other", endless |-> FALSE, pageNumber |-> 0, signedPostId |-> 0, tagElem |-> TRUE, before |-> 0]}

\* The "before" of #next_page_link as updateAdjacencyHints reads it; only the
\* tagged context reads it.
NextPageTimestamps(where) == IF where = "tagged" THEN Timestamps \cup {0} ELSE {0}

\* ------------------------------------------------------------- the machine
NoPass == [kind |-> "none", initial |-> FALSE, postIds |-> <<>>, threw |-> FALSE, result |-> RECONCILE_ABORT,
           branch |-> "none", wrote |-> FALSE, preCursors |-> EmptyCursors, preStorage |-> EmptyStorage]

\* the record of a reconcile() call with outcome `out`
PassOf(out, initial, postIds, preCursors, preStorage) ==
    [kind |-> "reconcile", initial |-> initial, postIds |-> postIds, threw |-> out.threw,
     result |-> out.result, branch |-> out.branch, wrote |-> out.wrote,
     preCursors |-> preCursors, preStorage |-> preStorage]

IvIdle == iv = [op |-> "none", S |-> <<>>, prev |-> <<>>, I |-> <<0, 1>>, updated |-> FALSE,
                v |-> 0, index |-> -1]

\* No activation, nothing stored: a fresh install.
MainIdle ==
    /\ running = FALSE
    /\ ctx = NoContext
    /\ cursors = EmptyCursors
    /\ storage = EmptyStorage
    /\ listener = FALSE
    /\ separator = NoSeparator
    /\ pass = NoPass

\* A fresh install, or an install of the v1 format with its last_post record.
InitWith(U) ==
    /\ IvIdle
    /\ running = FALSE
    /\ ctx = NoContext
    /\ cursors = EmptyCursors
    /\ \E lastPost \in U \cup {Undefined} : storage = [EmptyStorage EXCEPT !.last_post = lastPost]
    /\ listener = FALSE
    /\ separator = NoSeparator
    /\ pass = NoPass

\* Lines 497-511 of run(), and the same lines of the listener: the separator
\* is inserted when reconcile resolved to a post.
placed(out, dom) ==
    IF ~out.threw /\ isSafePositiveInteger(out.result)
       THEN insertSeparatorBeforePost(out.result, separator, dom)
       ELSE [threw |-> out.threw, separator |-> separator]

\* run() from reconcile on; out is what reconcile did.
RunReconciled(context, upgraded, loadedCursors, postIds, out, dom) ==
    /\ ctx' = context
    /\ pass' = PassOf(out, TRUE, postIds, loadedCursors, upgraded.storage)
    /\ cursors' = out.cursors
    /\ storage' = out.storage
    /\ separator' = placed(out, dom).separator
    /\ listener' = IF ~out.threw /\ ~isSafePositiveInteger(out.result)
                      /\ context.mayDefer /\ (out.result = RECONCILE_DEFER)
                      THEN TRUE ELSE listener

\* run() from enumerateDashboardPostIds on.
RunLoaded(context, upgraded, load, enumerated, dom, nextPageTimestamp) ==
    IF load.threw \/ enumerated.threw
       THEN /\ ctx' = context
            /\ pass' = NoPass
            /\ storage' = upgraded.storage
            /\ UNCHANGED <<cursors, listener, separator>>
       ELSE RunReconciled(context, upgraded, load.cursors, enumerated.postIds,
                          reconcile(load.cursors, enumerated.postIds, TRUE, context, nextPageTimestamp,
                                    upgraded.storage),
                          dom)

\* run() from loadCursors on.
RunUpgraded(context, upgraded, dom, nextPageTimestamp) ==
    IF upgraded.threw
       THEN /\ ctx' = context
            /\ pass' = NoPass
            /\ UNCHANGED <<cursors, storage, listener, separator>>
       ELSE RunLoaded(context, upgraded, loadCursors(context, upgraded.storage),
                      enumerateDashboardPostIds(dom), dom, nextPageTimestamp)

\* run() from upgradeStorage on.
RunInContext(context, dom, nextPageTimestamp) ==
    IF context.threw \/ ~context.shouldContinue
       THEN /\ ctx' = NoContext
            /\ pass' = NoPass
            /\ UNCHANGED <<cursors, storage, listener, separator>>
       ELSE RunUpgraded(context, upgradeStorage(storage), dom, nextPageTimestamp)

\* run(), on page `page` whose DOM holds the posts `dom`.
RunOn(page, dom, nextPageTimestamp) ==
    /\ running = FALSE
    /\ running' = TRUE
    /\ UNCHANGED iv
    /\ RunInContext(initContext(page), dom, nextPageTimestamp)

Run(U) ==
    \E page \in Pages(U), dom \in Doms(U) :
        \E nextPageTimestamp \in NextPageTimestamps(page.where) :
            RunOn(page, dom, nextPageTimestamp)

\* A plausible slip: the listener is not removed once the separator is in place.
listenerStaysRegistered(postIds, out, put) ==
    /\ pass' = PassOf(out, FALSE, postIds, cursors, storage)
    /\ cursors' = out.cursors
    /\ storage' = out.storage
    /\ separator' = put.separator
    /\ listener' = listener

\* The listener's callback from reconcile on; out is what reconcile did.  The
\* listener is removed once the separator is in place.
ListenerReconciled(postIds, out, put) ==
    /\ pass' = PassOf(out, FALSE, postIds, cursors, storage)
    /\ cursors' = out.cursors
    /\ storage' = out.storage
    /\ separator' = put.separator
    /\ listener' = IF ~out.threw /\ isSafePositiveInteger(out.result) /\ ~put.threw
                      THEN FALSE ELSE listener

ListenerPlaced(postIds, out, dom) == ListenerReconciled(postIds, out, placed(out, dom))

\* The listener's callback from enumerateDashboardPostIds on.
ListenerEnumerated(enumerated, dom, nextPageTimestamp) ==
    IF enumerated.threw
       THEN /\ pass' = NoPass
            /\ UNCHANGED <<cursors, storage, listener, separator>>
       ELSE ListenerPlaced(enumerated.postIds,
                           reconcile(cursors, enumerated.postIds, FALSE, ctx, nextPageTimestamp, storage),
                           dom)

\* The post listener's callback, the DOM now holding the posts `dom`.
PostListenerOn(dom, nextPageTimestamp) ==
    /\ listener = TRUE
    /\ UNCHANGED <<iv, running, ctx>>
    /\ ListenerEnumerated(enumerateDashboardPostIds(dom), dom, nextPageTimestamp)

PostListener(U) ==
    \E dom \in Doms(U) :
        \E nextPageTimestamp \in NextPageTimestamps(ctx.where) :
            PostListenerOn(dom, nextPageTimestamp)

\* destroy(): the listener and the separator line are removed.  The cursors
\* object of the activation is no longer referenced.
Destroy ==
    /\ running = TRUE
    /\ running' = FALSE
    /\ listener' = FALSE
    /\ separator' = NoSeparator
    /\ ctx' = NoContext
    /\ cursors' = EmptyCursors
    /\ pass' = NoPass
    /\ UNCHANGED <<iv, storage>>

Init == InitWith(PostIdUniverse)

Next == Run(PostIdUniverse) \/ PostListener(PostIdUniverse) \/ Destroy

Spec == Init /\ [][Next]_vars

\* ------------------------------------------------ the scenario specification
\* The same machine on a feed whose posts are 99..110, each page showing one
\* of a few runs of consecutive posts (or no post); the install is fresh, or of
\* the v1 format with last_post = 100.  The user follows one feed: a context
\* is not visited once the other one has cursors stored.
ScenarioRuns == {<<100, 99>>, <<105, 103>>, <<103, 99>>, <<110, 101>>, <<99, 99>>, <<110, 105>>, <<99, 100>>}

\* the posts hi, hi - 1, ..., lo
RECURSIVE Consecutive(_, _)
Consecutive(hi, lo) == IF hi < lo THEN <<>> ELSE <<hi>> \o Consecutive(hi - 1, lo)

ScenarioDoms == {Consecutive(r[1], r[2]) : r \in ScenarioRuns}

ScenarioPages == {page \in Pages({103}) : page.where \in {"dashboard", "tagged"} /\ page.tagElem}

ScenarioInit == InitWith({100})

OtherFeedUnvisited(page) ==
    IF page.where = "dashboard"
       THEN storage.tagged = NoText
       ELSE storage.dashboard = NoText /\ storage.last_post = Undefined

ScenarioRun ==
    \E page \in ScenarioPages, dom \in ScenarioDoms :
        \E nextPageTimestamp \in NextPageTimestamps(page.where) :
            /\ OtherFeedUnvisited(page)
            /\ RunOn(page, dom, nextPageTimestamp)

ScenarioPostListener ==
    \E dom \in ScenarioDoms :
        \E nextPageTimestamp \in NextPageTimestamps(ctx.where) :
            PostListenerOn(dom, nextPageTimestamp)

ScenarioNext == ScenarioRun \/ ScenarioPostListener \/ Destroy

SpecScenario == ScenarioInit /\ [][ScenarioNext]_vars

\* ------------------------------------------------ the storage specification
\* run() and destroy() on pages without endless scrolling, from any storage an
\* install can hold: the "version" key absent, null, or a number from 0 to
\* LATEST_STORAGE_VERSION + 1; the legacy "last_post" key absent, 0, a post of
\* the feed, or a post newer than any the feed still shows; the dashboard's
\* cursors absent or [1, []].
StoredVersions == {Undefined, Null} \cup (0..(LATEST_STORAGE_VERSION + 1))

LegacyPosts == {Undefined, 0, 2, MaxPostId + 4}

StorageInit ==
    /\ IvIdle
    /\ running = FALSE
    /\ ctx = NoContext
    /\ cursors = EmptyCursors
    /\ listener = FALSE
    /\ separator = NoSeparator
    /\ pass = NoPass
    /\ \E version \in StoredVersions, lastPost \in LegacyPosts,
          dashboard \in {NoText, StringifyDashboard(1, <<>>)} :
          storage = [version |-> version, last_post |-> lastPost, dashboard |-> dashboard,
                     tagged |-> NoText]

StoragePages == {page \in Pages(PostIdUniverse) : ~page.endless}

StorageRun ==
    \E page \in StoragePages, dom \in Doms(PostIdUniverse) :
        \E nextPageTimestamp \in NextPageTimestamps(page.where) :
            RunOn(page, dom, nextPageTimestamp)

StorageNext == StorageRun \/ Destroy

SpecStorage == StorageInit /\ [][StorageNext]_vars

\* -------------------------------------------------- the cursor specification
\* saveCursors, loadCursors and reconcile on the cursors objects over the
\* posts 1..MaxCursorId, in either context.  Initially either run() has just
\* loaded a valid cursors object from storage, or a cursors object, valid or
\* not, is about to be saved to an empty storage.
CursorIds == 1..MaxCursorId

\* the sorted disjoint interval sets whose endpoints are exactly the ids of E
RECURSIVE IntervalsOf(_)
IntervalsOf(E) ==
    IF E = {} THEN <<>>
    ELSE LET hi == Max(E)
             lo == Max(E \ {hi})
         IN  IntervalsOf(E \ {hi, lo}) \o <<<<lo, hi>>>>

IntervalSets == {IntervalsOf(E) : E \in {X \in SUBSET CursorIds : Cardinality(X) % 2 = 0}}

HintEntries == Timestamps \X CursorIds
HintMaps ==
    UNION {{m \in [1..n -> HintEntries] : \A i, j \in 1..n : (i # j) => (m[i][1] # m[j][1])}
              : n \in 0..MaxHints}

CandidateCursors(where) ==
    [goalPostId : CursorIds \cup {0, Null},
     witnessedPostIds : IntervalSets,
     adjacencyHints : IF where = "tagged" THEN HintMaps ELSE {<<>>}]

CursorContexts ==
    {initContext(page) : page \in {q \in Pages(CursorIds) : q.where \in {"dashboard", "tagged"}
                                                              /\ q.tagElem /\ ~q.endless}}

\* what loadCursors and saveCursors check of a cursors object
ValidFor(context, c) == IF context.where = "dashboard" THEN validCursors(c) ELSE validTaggedCursors(c)

EmptyCursorStorage == [EmptyStorage EXCEPT !.version = LATEST_STORAGE_VERSION]

\* the storage in which context's key holds the text of c
StorageHolding(context, c) ==
    IF context.where = "dashboard"
       THEN [EmptyCursorStorage EXCEPT !.dashboard = StringifyDashboard(c.goalPostId, c.witnessedPostIds)]
       ELSE [EmptyCursorStorage EXCEPT !.tagged = StringifyTagged(c.goalPostId, c.witnessedPostIds,
                                                                  ArrayFrom(c.adjacencyHints))]

CursorInit ==
    /\ IvIdle
    /\ running = FALSE
    /\ listener = FALSE
    /\ separator = NoSeparator
    /\ pass = NoPass
    /\ ctx \in CursorContexts
    /\ cursors \in CandidateCursors(ctx.where)
    /\ storage \in {EmptyCursorStorage} \cup
                   (IF ValidFor(ctx, cursors) THEN {StorageHolding(ctx, cursors)} ELSE {})

\* what saveCursors did, as a pass record
SavedPass(saved) ==
    [NoPass EXCEPT !.kind = "save", !.threw = saved.threw, !.wrote = saved.wrote,
                   !.preCursors = cursors, !.preStorage = storage]

CursorSaved(saved) ==
    /\ storage' = saved.storage
    /\ pass' = SavedPass(saved)
    /\ UNCHANGED <<iv, running, ctx, cursors, listener, separator>>

\* saveCursors(cursors) on the cursors object drawn
CursorSave ==
    /\ pass.kind = "none"
    /\ storage = EmptyCursorStorage
    /\ CursorSaved(saveCursors(ctx, cursors, storage))

CursorLoaded(load) ==
    /\ cursors' = load.cursors
    /\ pass' = [pass EXCEPT !.kind = "load", !.threw = load.threw, !.wrote = FALSE]
    /\ UNCHANGED <<iv, running, ctx, storage, listener, separator>>

\* loadCursors() of what saveCursors has just written; pass.preCursors stays
\* the cursors object that was saved
CursorLoad ==
    /\ pass.kind = "save"
    /\ pass.wrote
    /\ CursorLoaded(loadCursors(ctx, storage))

CursorReconciled(out, initial, postIds) ==
    /\ cursors' = out.cursors
    /\ storage' = out.storage
    /\ pass' = PassOf(out, initial, postIds, cursors, storage)
    /\ UNCHANGED <<iv, running, ctx, listener, separator>>

\* reconcile() on the cursors object run() has loaded, as the initial pass or
\* as a pass of the listener.  (A pass that returns leaves the cursors object
\* and the storage as some initial state has them.)
CursorPass ==
    /\ pass.kind = "none"
    /\ storage # EmptyCursorStorage
    /\ \E initial \in BOOLEAN, S \in SUBSET CursorIds :
          \E nextPageTimestamp \in NextPageTimestamps(ctx.where) :
              CursorReconciled(reconcile(cursors, Descending(S), initial, ctx, nextPageTimestamp, storage),
                               initial, Descending(S))

CursorNext == CursorSave \/ CursorLoad \/ CursorPass

SpecCursors == CursorInit /\ [][CursorNext]_vars

\* ------------------------------------------- the interval-set specification
\* Inputs: every sequence of at most MaxIntervals pairs over 0..MaxEndpoint that
\* areSortedDisjointSafeIntegerIntervals accepts, every interval lo < hi, every value.
Endpoints == 0..MaxEndpoint
Pairs == Endpoints \X Endpoints
PairSeqs == UNION {[1..n -> Pairs] : n \in 0..MaxIntervals}
ValidIntervalSets == {s \in PairSeqs : areSortedDisjointSafeIntegerIntervals(s)}
ProperIntervals == {p \in Pairs : p[1] < p[2]}

IvInit ==
    \E s \in ValidIntervalSets :
        /\ iv = [op |-> "none", S |-> s, prev |-> s, I |-> <<0, 1>>, updated |-> FALSE,
                 v |-> 0, index |-> -1]
        /\ MainIdle

\* insert(S, I): S is replaced by the mutated array.
IvInsert ==
    \E I \in ProperIntervals :
        LET r == addToSortedDisjointSafeIntegerIntervals(iv.S, I)
        IN  /\ iv' = [iv EXCEPT !.op = "insert", !.prev = iv.S, !.S = r.intervals, !.I = I,
                                !.updated = r.updated]
            /\ UNCHANGED mainVars

\* find(S, v).
IvFind ==
    \E v \in Endpoints :
        /\ iv' = [iv EXCEPT !.op = "find", !.v = v,
                            !.index = indexOfIntervalContainingValue(iv.S, v)]
        /\ UNCHANGED mainVars

IvNext == IvInsert \/ IvFind

SpecIntervals == IvInit /\ [][IvNext]_vars

\* Some interval of S contains v.
Covered(S, v) == \E i \in 1..Len(S) : S[i][1] <= v /\ v <= S[i][2]

\* C1: after insert(S, [lo, hi]) with lo < hi on a valid interval set, S is
\* again a valid interval set as judged by areSortedDisjointSafeIntegerIntervals.
C1_InsertKeepsValid ==
    (iv.op = "insert" /\ areSortedDisjointSafeIntegerIntervals(iv.prev))
        => areSortedDisjointSafeIntegerIntervals(iv.S)

\* An insert that merged two existing intervals into one has happened.
C1_Witness ==
    /\ iv.op = "insert"
    /\ Len(iv.prev) = 2
    /\ Len(iv.S) = 1
    /\ iv.updated

\* C2: inserting an interval that lies within a single existing interval
\* returns false and leaves the set identical; in particular inserting the
\* interval just inserted once more returns false and changes nothing.
C2_InsertIdempotent ==
    [][ /\ (iv'.op = "insert"
            /\ \E i \in 1..Len(iv.S) : iv.S[i][1] <= iv'.I[1] /\ iv'.I[2] <= iv.S[i][2])
           => (iv'.updated = FALSE /\ iv'.S = iv.S)
        /\ (iv.op = "insert" /\ iv'.op = "insert" /\ iv'.I = iv.I)
           => (iv'.updated = FALSE /\ iv'.S = iv.S) ]_vars

\* An interval was inserted with a change, then inserted again without one.
C2_Witness ==
    /\ iv.op = "insert"
    /\ ~iv.updated
    /\ iv.S = iv.prev
    /\ \E i \in 1..Len(iv.S) : iv.S[i][1] < iv.I[1] /\ iv.I[2] < iv.S[i][2]

\* C3: find(S, v) returns an index i with S[i].low <= v <= S[i].high exactly
\* when some interval of S contains v, and -1 exactly when none does.
C3_FindCorrect ==
    (iv.op = "find") =>
        /\ Covered(iv.S, iv.v) <=> (iv.index # -1)
        /\ (iv.index # -1) =>
              /\ iv.index \in 0..(Len(iv.S) - 1)
              /\ iv.S[iv.index + 1][1] <= iv.v
              /\ iv.v <= iv.S[iv.index + 1][2]

\* A value on the upper endpoint of the second interval was found at index 1.
C3_Witness ==
    /\ iv.op = "find"
    /\ iv.index = 1
    /\ iv.v = iv.S[2][2]

\* ------------------------------------------------- claims about reconcile
Reconciled == pass.kind = "reconcile"

\* what JSON.parse reads from the context's key
Stored == ParseCursorsText(storage[ctx.where])

\* C4: an initial pass on the never-visited cursors {null, []} with a
\* non-empty batch sets the goal post to the newest post, leaves the witnessed
\* intervals empty, writes these cursors to storage and returns the newest post.
C4_FirstVisit ==
    (/\ Reconciled /\ pass.initial /\ pass.postIds # <<>>
     /\ pass.preCursors.goalPostId = Null /\ pass.preCursors.witnessedPostIds = <<>>)
    => /\ ~pass.threw
       /\ \A i \in 1..Len(pass.postIds) : pass.postIds[i] <= pass.result
       /\ pass.result = pass.postIds[1]
       /\ cursors.goalPostId = pass.postIds[1]
       /\ cursors.witnessedPostIds = <<>>
       /\ pass.wrote
       /\ Stored.first = pass.postIds[1]
       /\ Stored.second = <<>>

\* A first visit of a tagged feed that showed three posts.
C4_Witness ==
    /\ Reconciled /\ pass.initial /\ pass.branch = "first_visit"
    /\ ctx.where = "tagged"
    /\ Len(pass.postIds) = 3
    /\ pass.preCursors.goalPostId = Null
    /\ cursors.goalPostId = pass.postIds[1]
    /\ pass.wrote

\* C5: from {goalPostId: 100, witnessed: []}, the initial pass on
\* [105,104,103] returns DEFER and leaves the goal post at 100 with witnessed
\* [[103,105]]; the listener's pass on [103,102,101,100,99] that follows
\* returns a post >= 100, sets the goal post to 105 and empties the witnessed
\* intervals.
C5_DeferredConvergence ==
    /\ (/\ Reconciled /\ pass.initial
         /\ pass.preCursors.goalPostId = 100 /\ pass.preCursors.witnessedPostIds = <<>>
         /\ pass.postIds = <<105, 104, 103>>)
        => /\ ~pass.threw
           /\ pass.result = RECONCILE_DEFER
           /\ cursors.goalPostId = 100
           /\ cursors.witnessedPostIds = <<<<103, 105>>>>
    /\ (/\ Reconciled /\ ~pass.initial
         /\ pass.preCursors.goalPostId = 100 /\ pass.preCursors.witnessedPostIds = <<<<103, 105>>>>
         /\ pass.postIds = <<103, 102, 101, 100, 99>>)
        => /\ ~pass.threw
           /\ pass.result >= 100
           /\ cursors.goalPostId = 105
           /\ cursors.witnessedPostIds = <<>>

\* The listener's pass on [103,...,99] has reached the goal post 100 and the
\* separator sits before post 100.
C5_Witness ==
    /\ Reconciled /\ ~pass.initial
    /\ pass.preCursors.goalPostId = 100 /\ pass.preCursors.witnessedPostIds = <<<<103, 105>>>>
    /\ pass.postIds = <<103, 102, 101, 100, 99>>
    /\ cursors.goalPostId = 105
    /\ separator = 100
    /\ ~listener

\* the initial first-page pass with goal post 100 that observes [110,...,101]
GoalPostMissingFromFirstPage ==
    /\ Reconciled /\ pass.initial /\ ctx.isFirstPage
    /\ pass.preCursors.goalPostId = 100
    /\ pass.postIds = Consecutive(110, 101)

\* C6 as claimed: with goal post 100, the initial first-page pass observing
\* [110,...,101] resets the goal post to 110 and clears the witnessed intervals
\* and the hints.
C6_ResetOnNewerPosts ==
    GoalPostMissingFromFirstPage
    => /\ cursors.goalPostId = 110
       /\ cursors.witnessedPostIds = <<>>
       /\ cursors.adjacencyHints = <<>>

\* C6 as amended: that pass returns DEFER, keeps the goal post 100 and
\* witnesses [101,110]; the goal post is reset, and the witnessed intervals and
\* the hints cleared, when the first page's newest post is older than 100.
C6_ResetOnlyOnOlderPosts ==
    /\ GoalPostMissingFromFirstPage
        => /\ ~pass.threw
           /\ pass.result = RECONCILE_DEFER
           /\ cursors.goalPostId = 100
           /\ cursors.witnessedPostIds = <<<<101, 110>>>>
    /\ (/\ Reconciled /\ pass.initial /\ ctx.isFirstPage
         /\ pass.preCursors.goalPostId = 100
         /\ pass.postIds # <<>> /\ pass.postIds[1] < 100)
        => /\ ~pass.threw
           /\ pass.result = pass.postIds[1]
           /\ cursors.goalPostId = pass.postIds[1]
           /\ cursors.witnessedPostIds = <<>>
           /\ cursors.adjacencyHints = <<>>
           /\ pass.wrote

\* The pass on [110,...,101] has deferred, absorbing the witnessed [103,105]
\* and keeping a hint.
C6_Witness ==
    /\ GoalPostMissingFromFirstPage
    /\ pass.preCursors.witnessedPostIds = <<<<103, 105>>>>
    /\ pass.preCursors.adjacencyHints # <<>>
    /\ pass.result = RECONCILE_DEFER
    /\ cursors.adjacencyHints # <<>>

\* C7: when reconcile returns ABORT the batch is empty, or the pass is an
\* initial one, not on the first page, whose newest post is below the goal
\* post; the cursors object is as before and nothing was written to storage.
C7_AbortChangesNothing ==
    (Reconciled /\ ~pass.threw /\ pass.result = RECONCILE_ABORT)
    => /\ \/ pass.postIds = <<>>
          \/ /\ pass.initial /\ ~ctx.isFirstPage
             /\ pass.preCursors.goalPostId # Null
             /\ pass.postIds[1] < pass.preCursors.goalPostId
       /\ cursors = pass.preCursors
       /\ ~pass.wrote
       /\ storage = pass.preStorage

\* A page of feed history was visited while intervals and a hint were held.
C7_Witness ==
    /\ Reconciled /\ ~pass.threw /\ pass.result = RECONCILE_ABORT
    /\ pass.postIds # <<>>
    /\ cursors.witnessedPostIds # <<>>
    /\ cursors.adjacencyHints # <<>>

\* C8: loadCursors of what saveCursors wrote succeeds and yields the cursors
\* that were saved (pass.preCursors), in both contexts.
C8_RoundTrip ==
    (pass.kind = "load") => (~pass.threw /\ cursors = pass.preCursors)

\* Tagged cursors with an interval and a hint were saved and loaded.
C8_Witness ==
    /\ pass.kind = "load"
    /\ ctx.where = "tagged"
    /\ cursors.witnessedPostIds # <<>>
    /\ cursors.adjacencyHints # <<>>

\* C9 as claimed, after a pass from the never-visited cursors: the goal post
\* is null if and only if there are no witnessed intervals.
C9_NullIffEmpty ==
    (Reconciled /\ pass.preCursors.goalPostId = Null)
    => ((cursors.goalPostId = Null) <=> (cursors.witnessedPostIds = <<>>))

\* C9 as amended: in every cursors object that passes validation and in every
\* one a pass leaves behind, a null goal post implies that there are no
\* witnessed intervals.
C9_NullImpliesEmpty ==
    (ValidFor(ctx, cursors) \/ Reconciled)
    => ((cursors.goalPostId = Null) => (cursors.witnessedPostIds = <<>>))

\* A pass that left the never-visited cursors never visited.
C9_Witness ==
    /\ Reconciled
    /\ ValidFor(ctx, cursors)
    /\ cursors.goalPostId = Null
    /\ cursors.witnessedPostIds = <<>>

\* C10: a pass that throws writes nothing: storage is what it was before the pass.
C10_ThrowWritesNothing ==
    (Reconciled /\ pass.threw) => (~pass.wrote /\ storage = pass.preStorage)

\* saveCursors rejected the cursors of a pass that had reached the goal post:
\* the cursors object has changed, storage has not.
C10_Witness ==
    /\ Reconciled /\ pass.threw
    /\ pass.branch = "throw_save"
    /\ cursors.goalPostId # pass.preCursors.goalPostId
    /\ Stored.first = pass.preCursors.goalPostId

\* C12: an initial first-page pass with a goal post and a non-empty batch
\* whose newest post is below the goal post sets the goal post to that newest
\* post, empties the witnessed intervals and the hints, writes the cursors to
\* storage and returns the newest post.
C12_ResetOnFirstPage ==
    (/\ Reconciled /\ pass.initial /\ ctx.isFirstPage
     /\ pass.preCursors.goalPostId # Null
     /\ pass.postIds # <<>>
     /\ pass.postIds[1] < pass.preCursors.goalPostId)
    => /\ ~pass.threw
       /\ pass.result = pass.postIds[1]
       /\ cursors.goalPostId = pass.postIds[1]
       /\ cursors.witnessedPostIds = <<>>
       /\ cursors.adjacencyHints = <<>>
       /\ pass.wrote
       /\ Stored.first = pass.postIds[1]
       /\ Stored.second = <<>>
       /\ (ctx.where = "tagged") => (Stored.third = <<>>)

\* A reset on a tagged first page that dropped an interval and a hint.
C12_Witness ==
    /\ Reconciled /\ pass.initial /\ ctx.isFirstPage /\ ctx.where = "tagged"
    /\ pass.branch = "reset"
    /\ pass.preCursors.witnessedPostIds # <<>>
    /\ pass.preCursors.adjacencyHints # <<>>
    /\ Len(pass.postIds) > 1
    /\ cursors.goalPostId = pass.postIds[1]
    /\ cursors.witnessedPostIds = <<>>

\* the range a pass merges: the batch's [oldest, newest], augmented on an
\* initial pass
MergedRange ==
    IF pass.initial
       THEN augmentWithAdjacencyHints(ctx, pass.preCursors,
                                      <<pass.postIds[Len(pass.postIds)], pass.postIds[1]>>)
       ELSE <<pass.postIds[Len(pass.postIds)], pass.postIds[1]>>

\* the witnessed intervals after the merge of a pass that merged
Merged == addToSortedDisjointSafeIntegerIntervals(pass.preCursors.witnessedPostIds, MergedRange)

\* the pass went as far as the merge of lines 422-423
PassMerged == Reconciled /\ pass.branch \in {"defer", "reached", "throw_reached", "throw_save"}

\* C13: from valid cursors with a goal post, whenever the witnessed intervals
\* after the merge contain the goal post, the interval containing it is the
\* first one and the merge changed the intervals: no pass throws at line 436.
C13_ReachedInFirstInterval ==
    /\ Reconciled => (pass.branch # "throw_reached")
    /\ (PassMerged /\ indexOfIntervalContainingValue(Merged.intervals, pass.preCursors.goalPostId) # -1)
        => /\ indexOfIntervalContainingValue(Merged.intervals, pass.preCursors.goalPostId) = 0
           /\ Merged.updated
           /\ Merged.intervals # pass.preCursors.witnessedPostIds

\* The goal post was reached in the first of two intervals.
C13_Witness ==
    /\ Reconciled /\ pass.branch = "reached"
    /\ Len(Merged.intervals) = 2
    /\ Merged.intervals[1][1] <= pass.preCursors.goalPostId
    /\ pass.preCursors.goalPostId <= Merged.intervals[1][2]

\* a pass that reached the goal post and returned
ReachedGoalPost == Reconciled /\ pass.branch = "reached"

\* the posts of the batch
Batch == {pass.postIds[i] : i \in 1..Len(pass.postIds)}

\* C14: a pass that reaches the goal post returns the largest post of the
\* batch that does not exceed the goal post the cursors had before the pass.
C14_BestGoalPost ==
    ReachedGoalPost
    => /\ pass.result \in Batch
       /\ pass.result <= pass.preCursors.goalPostId
       /\ \A p \in Batch : (p <= pass.preCursors.goalPostId) => (p <= pass.result)

\* The goal post itself was not in the batch: an older post was returned while
\* newer posts were in the batch.
C14_Witness ==
    /\ ReachedGoalPost
    /\ pass.result < pass.preCursors.goalPostId
    /\ pass.postIds[1] > pass.preCursors.goalPostId
    /\ pass.postIds[Len(pass.postIds)] < pass.result

\* the witnessed intervals the cursors had before the pass that lie above post p
IntervalsAbove(p) == SelectSeq(pass.preCursors.witnessedPostIds, LAMBDA interval : interval[1] > p)

\* C15: a pass that reaches the goal post sets the goal post to the upper
\* endpoint of the merged interval containing the previous goal post and
\* removes that interval; what remains are the intervals the cursors had before
\* that the merge did not absorb, unchanged, all strictly above the new goal
\* post.
C15_NewGoalPost ==
    ReachedGoalPost
    => /\ Merged.intervals[1][1] <= pass.preCursors.goalPostId
       /\ pass.preCursors.goalPostId <= Merged.intervals[1][2]
       /\ cursors.goalPostId = Merged.intervals[1][2]
       /\ cursors.witnessedPostIds = Tail(Merged.intervals)
       /\ cursors.witnessedPostIds = IntervalsAbove(cursors.goalPostId)
       /\ \A i \in 1..Len(cursors.witnessedPostIds) : cursors.witnessedPostIds[i][1] > cursors.goalPostId

\* Of two intervals the merge absorbed the lower one, whose upper endpoint is
\* the new goal post; the upper one remains.
C15_Witness ==
    /\ ReachedGoalPost
    /\ Len(pass.preCursors.witnessedPostIds) = 2
    /\ cursors.witnessedPostIds = <<pass.preCursors.witnessedPostIds[2]>>
    /\ cursors.goalPostId = pass.preCursors.witnessedPostIds[1][2]
    /\ cursors.goalPostId > pass.postIds[1]

\* C16 as claimed: after a pass that reaches the goal post the goal post is
\* strictly greater than before the pass.
C16_StrictlyNewerGoalPost ==
    ReachedGoalPost => (cursors.goalPostId > pass.preCursors.goalPostId)

\* C16 as amended: after a pass that reaches the goal post the goal post is
\* not smaller than before; it is strictly greater when the batch holds a post
\* newer than the previous goal post, and the same when the batch's newest
\* post is the previous goal post and the merge absorbed no interval.
C16_GoalPostNotOlder ==
    ReachedGoalPost
    => /\ cursors.goalPostId >= pass.preCursors.goalPostId
       /\ (pass.postIds[1] > pass.preCursors.goalPostId)
            => (cursors.goalPostId > pass.preCursors.goalPostId)
       /\ (/\ pass.postIds[1] = pass.preCursors.goalPostId
           /\ cursors.witnessedPostIds = pass.preCursors.witnessedPostIds)
            => (cursors.goalPostId = pass.preCursors.goalPostId)

\* The page was loaded again with nothing new: the goal post stays.
C16_Witness ==
    /\ ReachedGoalPost /\ pass.initial /\ ctx.isFirstPage
    /\ pass.postIds[1] = pass.preCursors.goalPostId
    /\ Len(pass.postIds) > 1
    /\ cursors.goalPostId = pass.preCursors.goalPostId
    /\ pass.wrote

\* every hinted post lies in a witnessed interval, and there is no hint when
\* there is no witnessed interval
HintsWitnessed(c) ==
    /\ \A i \in 1..Len(c.adjacencyHints) :
          indexOfIntervalContainingValue(c.witnessedPostIds, c.adjacencyHints[i][2]) # -1
    /\ (c.witnessedPostIds = <<>>) => (c.adjacencyHints = <<>>)

\* C17 as claimed, of the pass that run() makes: in the tagged context, after
\* the pass the hinted posts are witnessed posts, there is no hint when nothing
\* is witnessed, and saveCursors has not rejected the pass.
C17_HintsStayWitnessed ==
    (Reconciled /\ pass.initial /\ ctx.where = "tagged")
    => /\ HintsWitnessed(cursors)
       /\ pass.branch # "throw_save"

\* an initial pass that went as far as augmentWithAdjacencyHints (line 412)
PassAugmented ==
    /\ Reconciled /\ pass.initial
    /\ pass.branch \in {"throw_range", "defer", "reached", "throw_reached", "throw_save"}

\* the batch's [oldest, newest]
ObservedRange == <<pass.postIds[Len(pass.postIds)], pass.postIds[1]>>

\* the post the page's address hints at: the post id of the dashboard's path,
\* or the hint stored for the tagged page's "before" timestamp
HintedPost ==
    IF ctx.augment = "tagged" THEN MapGet(pass.preCursors.adjacencyHints, ctx.pageTimestamp)
    ELSE ctx.postId

HintedPostWitnessed ==
    /\ ctx.augment # "identity"
    /\ Covered(pass.preCursors.witnessedPostIds, HintedPost)

Resolved == Reconciled /\ ~pass.threw /\ isSafePositiveInteger(pass.result)

\* C11: within an activation, once a pass has resolved to a post the separator
\* sits before that post and no listener is registered; while the separator is
\* in place and the activation lasts, no pass runs and neither the separator,
\* the cursors nor the storage change; run() never finds a listener registered,
\* so that it never registers a second one.
C11_ListenerDeregisters ==
    /\ [](/\ Resolved => (~listener /\ separator = pass.result)
          /\ (separator # NoSeparator) => (running /\ ~listener)
          /\ ~running => ~listener)
    /\ [][((separator # NoSeparator) /\ running')
            => (separator' = separator /\ cursors' = cursors /\ storage' = storage /\ pass' = pass)]_vars

\* The listener's pass has resolved and the listener is gone.
C11_Witness ==
    /\ running /\ Resolved /\ ~pass.initial
    /\ separator = pass.result
    /\ ~listener

\* C18 as claimed: a pass that returns DEFER or ABORT leaves the goal post as
\* it was, a pass that returns DEFER leaves every witnessed post witnessed,
\* and only a pass that returns a post changes the goal post.
C18_GoalPostFrame ==
    /\ (Reconciled /\ ~pass.threw /\ pass.result \in {RECONCILE_DEFER, RECONCILE_ABORT})
        => (cursors.goalPostId = pass.preCursors.goalPostId)
    /\ (Reconciled /\ ~pass.threw /\ pass.result = RECONCILE_DEFER)
        => \A v \in 99..110 : Covered(pass.preCursors.witnessedPostIds, v)
                                => Covered(cursors.witnessedPostIds, v)
    /\ (Reconciled /\ cursors.goalPostId # pass.preCursors.goalPostId) => Resolved

\* C19 as claimed: once a pass of an activation has thrown, no other pass runs
\* in that activation and the storage is not written again.
C19_NoRetry ==
    [][(Reconciled /\ pass.threw /\ running')
        => /\ ~(pass'.kind = "reconcile" /\ pass' # pass)
           /\ storage' = storage]_vars

\* ------------------------------------------------- more claims about insert
\* the intervals of the set before the insert that share a point with the
\* inserted interval
Touched == SelectSeq(iv.prev, LAMBDA old : old[1] <= iv.I[2] /\ iv.I[1] <= old[2])

Min(S) == CHOOSE x \in S : \A y \in S : x <= y

\* the one interval spanning the inserted interval and those it touches
Spanning ==
    <<Min({iv.I[1]} \cup {Touched[i][1] : i \in 1..Len(Touched)}),
      Max({iv.I[2]} \cup {Touched[i][2] : i \in 1..Len(Touched)})>>

\* C21: after insert(S, [lo, hi]) with lo < hi on a valid interval set, the
\* integers covered are those covered before together with lo..hi; the
\* intervals that overlapped [lo, hi] or shared an endpoint with it are
\* replaced by one interval spanning their union, the others stay in place;
\* and insert returns true exactly when S has changed.
C21_InsertCoversUnion ==
    (iv.op = "insert" /\ areSortedDisjointSafeIntegerIntervals(iv.prev))
    => /\ \A v \in -1..(MaxEndpoint + 1) :
             Covered(iv.S, v) <=> (Covered(iv.prev, v) \/ (iv.I[1] <= v /\ v <= iv.I[2]))
       /\ iv.S = SelectSeq(iv.prev, LAMBDA old : old[2] < iv.I[1])
                    \o <<Spanning>>
                    \o SelectSeq(iv.prev, LAMBDA old : iv.I[2] < old[1])
       /\ iv.updated <=> (iv.S # iv.prev)

\* An insert that shares an endpoint with one interval and leaves another in
\* place has extended the first.
C21_Witness ==
    /\ iv.op = "insert" /\ iv.updated
    /\ Len(iv.prev) = 2 /\ Len(iv.S) = 2
    /\ Len(Touched) = 1
    /\ iv.I[1] = Touched[1][2]
    /\ Spanning = <<Touched[1][1], iv.I[2]>>
    /\ iv.S[2] = iv.prev[2]

\* ------------------------------------------- claims about upgradeStorage
\* the stored version is absent, 1 or 2
VersionKnown(store) == store.version \in {Undefined, 1, LATEST_STORAGE_VERSION}

\* the storage after the migration the claim describes
Migrated(store) ==
    IF store.version = LATEST_STORAGE_VERSION THEN store
    ELSE [store EXCEPT !.version = LATEST_STORAGE_VERSION,
                       !.last_post = Undefined,
                       !.dashboard = IF store.last_post > 0
                                        THEN <<"[">> \o NumberText(store.last_post) \o <<",", "[", "]", "]">>
                                        ELSE @]

\* a step of run() that got past initContext
RunStep == ~running /\ running' /\ ctx'.shouldContinue

\* C22: in run(), the cursors are loaded from the migrated storage: from
\* version 1 or no version, last_post is removed, the dashboard's cursors
\* become [lastPost, []] when lastPost is a positive integer, and the version
\* becomes 2; with version 2 nothing changes; with any other version run()
\* throws before loading, with storage unchanged.
C22_MigrationBeforeLoad ==
    [][RunStep
        => IF ~VersionKnown(storage)
              THEN /\ storage' = storage
                   /\ pass' = NoPass
                   /\ cursors' = cursors
                   /\ separator' = separator
              ELSE /\ (pass'.kind = "reconcile")
                       => /\ pass'.preStorage = Migrated(storage)
                          /\ pass'.preCursors = loadCursors(ctx', Migrated(storage)).cursors
                   /\ (pass'.kind # "reconcile") => (storage' = Migrated(storage))
                   /\ (pass'.kind = "reconcile" /\ ctx'.where = "dashboard"
                          /\ storage.version # LATEST_STORAGE_VERSION /\ storage.last_post > 0)
                       => (pass'.preCursors = [EmptyCursors EXCEPT !.goalPostId = storage.last_post])
                   /\ storage'.version = LATEST_STORAGE_VERSION
                   /\ Migrated(storage') = storage'
                   /\ upgradeStorage(storage') = [threw |-> FALSE, storage |-> storage']]_vars

\* The dashboard's first page was loaded with the goal post of the legacy
\* record, a post newer than any post shown: the migration had been done
\* before the load.
C22_Witness ==
    /\ running /\ Reconciled /\ pass.initial /\ ctx.where = "dashboard"
    /\ pass.preCursors.goalPostId = MaxPostId + 4
    /\ pass.preStorage.version = LATEST_STORAGE_VERSION
    /\ pass.preStorage.last_post = Undefined
    /\ pass.branch = "reset"

\* ------------------------------------------------ the batch spans the goal post
\* the batch of the pass has at least two posts and the goal post the cursors
\* had lies between its oldest and its newest post
SpansGoalPost ==
    /\ Reconciled
    /\ pass.preCursors.goalPostId # Null
    /\ Len(pass.postIds) >= 2
    /\ pass.postIds[Len(pass.postIds)] <= pass.preCursors.goalPostId
    /\ pass.preCursors.goalPostId <= pass.postIds[1]

\* the posts of the page lie on the side of the post its address names: older
\* than it on /dashboard/<n>/<post>, newer than it on /dashboard/<n>/-<post>
BatchMatchesAddress ==
    /\ (ctx.augment = "olderThan") => (pass.postIds[1] < ctx.postId)
    /\ (ctx.augment = "newerThan") => (ctx.postId < pass.postIds[Len(pass.postIds)])

\* C23 as claimed, of the pass that run() makes on a page whose posts match
\* its address: when the batch spans the goal post, the pass does not throw,
\* writes the cursors to storage and returns a post id.
C23_SpanningBatchResolves ==
    (SpansGoalPost /\ pass.initial /\ BatchMatchesAddress)
    => /\ ~pass.threw
       /\ pass.wrote
       /\ isSafePositiveInteger(pass.result)
====
